---- MODULE Spec2Model ----
\* A model of dna::Comparator (src/dna/comparator.hpp): the sex classifier
\* getSex, the telomere trimmer getDataRange and the per-chromosome loop of
\* compare, together with the stream and person capabilities they call.
EXTENDS Integers, Sequences, FiniteSets, TLC

VARIABLES
    helix_size,     \* getSex: size() of the stream handed to getSex, in storage units
    sex,            \* getSex: the classification returned, "none" before the call
    helix,          \* getDataRange: the stream's content
    chunk,          \* getDataRange: the most bases one read() delivers
    result,         \* getDataRange: the record returned, NotReturned before the call
    helix2,         \* a second stream, equal to helix outside its interior
    result2,        \* getDataRange on helix2
    a_chromosomes,  \* compare: a.chromosomes()
    b_chromosomes,  \* compare: b.chromosomes()
    pc,             \* compare: position of the call
    chromosome_idx, \* compare: the loop variable
    helix_a,        \* compare: a.chromosome(chromosome_idx) of the last iteration
    helix_b,        \* compare: b.chromosome(chromosome_idx) of the last iteration
    skipped,        \* compare: whether the last iteration took the continue
    ret,            \* compare: the list of Difference records
    calls           \* compare: the capability calls made on the two persons

vars == <<helix_size, sex, helix, chunk, result, helix2, result2, a_chromosomes,
          b_chromosomes, pc, chromosome_idx, helix_a, helix_b, skipped, ret, calls>>

sexVars == <<helix_size, sex>>
rangeVars == <<helix, chunk, result, helix2, result2>>
compareVars == <<a_chromosomes, b_chromosomes, pc, chromosome_idx, helix_a, helix_b,
                 skipped, ret, calls>>

-----------------------------------------------------------------------------
\* Data model

Base == {"A", "C", "G", "T"}

\* Bases held by one storage unit (packed_size::value).
PackedSize == 4

NUM_CHROMOSOMES == 23

SEX_CHROMOSOME_IDX == 22

X_CHROMOSOME_LEN == 156000000

Y_CHROMOSOME_LEN == 57000000

TELOMERE_SEQ == <<"T", "T", "A", "G", "G", "G">>

\* TELOMERE_SEQ[i] with the source's 0-based index.
TelomereAt(i) == TELOMERE_SEQ[i + 1]

Min(x, y) == IF x < y THEN x ELSE y

\* A chromosome's content: the bases of head, then mid copies of the base fill,
\* then the bases of tail. Short chromosomes are all head.
Helix(head, fill, mid, tail) == [head |-> head, fill |-> fill, mid |-> mid, tail |-> tail]

Plain(bases) == Helix(bases, "C", 0, <<>>)

\* Number of bases of a chromosome.
HelixLen(h) == Len(h.head) + h.mid + Len(h.tail)

\* size(): the number of storage units.
HelixSize(h) == HelixLen(h) \div PackedSize

\* The base at 0-based index i.
BaseAt(h, i) ==
    IF i < Len(h.head) THEN h.head[i + 1]
    ELSE IF i < Len(h.head) + h.mid THEN h.fill
    ELSE h.tail[i - Len(h.head) - h.mid + 1]

-----------------------------------------------------------------------------
\* Comparator::getSex

getSexInclusive(size) ==
    LET helix_len == size * PackedSize
    IN  IF helix_len >= (4 * X_CHROMOSOME_LEN) \div 5 /\ helix_len <= (5 * X_CHROMOSOME_LEN) \div 4
        THEN "X"
        ELSE IF helix_len >= (4 * Y_CHROMOSOME_LEN) \div 5 /\ helix_len <= (5 * Y_CHROMOSOME_LEN) \div 4
        THEN "Y"
        ELSE "MAX"

getSex(size) ==
    LET helix_len == size * PackedSize
    IN  IF helix_len > (4 * X_CHROMOSOME_LEN) \div 5 /\ helix_len < (5 * X_CHROMOSOME_LEN) \div 4
        THEN "X"
        ELSE IF helix_len > (4 * Y_CHROMOSOME_LEN) \div 5 /\ helix_len < (5 * Y_CHROMOSOME_LEN) \div 4
        THEN "Y"
        ELSE "MAX"

-----------------------------------------------------------------------------
\* The stream capability read(), after seek(0): the bases a chunk makes visible.
\* past says what an index at or beyond the chunk's length yields: one of the
\* four bases, or "rest" when the memory behind the chunk holds the rest of the
\* chromosome.
PastChoices == Base \cup {"rest"}

\* The choices that can show: all of them when the chunk is shorter than the
\* chromosome, and no index is past the chunk otherwise.
PastChoicesFor(h, chunk_size) == IF chunk_size < HelixLen(h) THEN PastChoices ELSE {"rest"}

read(h, chunk_size, past) == [h |-> h, size |-> Min(chunk_size, HelixLen(h)), past |-> past]

\* buffer[i]
BufferAt(buffer, i) ==
    IF i < buffer.size \/ buffer.past = "rest" THEN BaseAt(buffer.h, i) ELSE buffer.past

-----------------------------------------------------------------------------
\* Comparator::getDataRange

\* The inner loop at the front for rotation t_idx: whether every compared base matched.
FrontMatch(buffer, t_idx) ==
    \A b_idx \in 0..(Min(Len(TELOMERE_SEQ), buffer.size) - 1) :
        BufferAt(buffer, b_idx) = TelomereAt((t_idx + b_idx) % Len(TELOMERE_SEQ))

\* The indices the inner loop at the front reads for rotation t_idx (it breaks at
\* the first mismatch).
FrontProbe(buffer, t_idx) ==
    {b_idx \in 0..(Min(Len(TELOMERE_SEQ), buffer.size) - 1) :
        \A c \in 0..(b_idx - 1) :
            BufferAt(buffer, c) = TelomereAt((t_idx + c) % Len(TELOMERE_SEQ))}

\* The outer loop at the front: the first matching rotation sets telomere_idx and
\* moves data_start past one period; without a match both keep their values.
FrontPhaseLost(buffer) ==
    LET matching == {t_idx \in 0..(Len(TELOMERE_SEQ) - 1) : FrontMatch(buffer, t_idx)}
        tried == IF matching = {} THEN 0..(Len(TELOMERE_SEQ) - 1)
                 ELSE 0..(CHOOSE t \in matching : \A u \in matching : t <= u)
    IN  [telomere_idx |-> 0,
         data_start |-> IF matching = {} THEN 0 ELSE Len(TELOMERE_SEQ),
         matched |-> matching # {},
         reads |-> UNION {FrontProbe(buffer, t) : t \in tried}]

FrontPhase(buffer) ==
    LET matching == {t_idx \in 0..(Len(TELOMERE_SEQ) - 1) : FrontMatch(buffer, t_idx)}
        first == CHOOSE t \in matching : \A u \in matching : t <= u
        tried == IF matching = {} THEN 0..(Len(TELOMERE_SEQ) - 1) ELSE 0..first
    IN  [telomere_idx |-> IF matching = {} THEN 0 ELSE first,
         data_start |-> IF matching = {} THEN 0 ELSE Len(TELOMERE_SEQ),
         matched |-> matching # {},
         reads |-> UNION {FrontProbe(buffer, t) : t \in tried}]

\* The forward while loop: advance while the base matches the pattern at the phase.
RECURSIVE ForwardScanLookahead(_, _, _, _)
ForwardScanLookahead(buffer, data_start, data_end, telomere_idx) ==
    IF data_start < data_end
       /\ (BufferAt(buffer, data_start) = TelomereAt(telomere_idx)
           \/ (data_start + 1 < data_end
               /\ BufferAt(buffer, data_start + 1)
                    = TelomereAt((telomere_idx + 1) % Len(TELOMERE_SEQ))))
    THEN ForwardScanLookahead(buffer, data_start + 1, data_end,
                              (telomere_idx + 1) % Len(TELOMERE_SEQ))
    ELSE [data_start |-> data_start, telomere_idx |-> telomere_idx]

RECURSIVE ForwardScan(_, _, _, _)
ForwardScan(buffer, data_start, data_end, telomere_idx) ==
    IF data_start < data_end /\ BufferAt(buffer, data_start) = TelomereAt(telomere_idx)
    THEN ForwardScan(buffer, data_start + 1, data_end,
                     (telomere_idx + 1) % Len(TELOMERE_SEQ))
    ELSE [data_start |-> data_start, telomere_idx |-> telomere_idx]

\* "If there isn't enough room for a complete telomere at the end".
NoRoomNever(data_start, data_end) == FALSE

NoRoomAtEnd(data_start, data_end) == data_end < data_start + Len(TELOMERE_SEQ)

\* The inner loop at the back for rotation t_idx.
BackMatch(buffer, data_end, t_idx) ==
    \A b_idx \in 0..(Len(TELOMERE_SEQ) - 1) :
        BufferAt(buffer, data_end - 1 - b_idx)
            = TelomereAt((Len(TELOMERE_SEQ) + t_idx - b_idx) % Len(TELOMERE_SEQ))

BackProbe(buffer, data_end, t_idx) ==
    {data_end - 1 - b_idx : b_idx \in
        {b \in 0..(Len(TELOMERE_SEQ) - 1) :
            \A c \in 0..(b - 1) :
                BufferAt(buffer, data_end - 1 - c)
                    = TelomereAt((Len(TELOMERE_SEQ) + t_idx - c) % Len(TELOMERE_SEQ))}}

\* The outer loop at the back: the first matching rotation sets telomere_idx and
\* moves data_end before one period; without a match telomere_idx keeps the value
\* the forward scan left in it.
BackPhase(buffer, data_end, telomere_idx) ==
    LET matching == {t_idx \in 0..(Len(TELOMERE_SEQ) - 1) : BackMatch(buffer, data_end, t_idx)}
        first == CHOOSE t \in matching : \A u \in matching : t <= u
        tried == IF matching = {} THEN 0..(Len(TELOMERE_SEQ) - 1) ELSE 0..first
    IN  [telomere_idx |-> IF matching = {} THEN telomere_idx ELSE first,
         data_end |-> IF matching = {} THEN data_end ELSE data_end - Len(TELOMERE_SEQ),
         matched |-> matching # {},
         reads |-> UNION {BackProbe(buffer, data_end, t) : t \in tried}]

\* The backward while loop.
RECURSIVE BackwardScan(_, _, _, _)
BackwardScan(buffer, data_start, data_end, telomere_idx) ==
    IF data_end > data_start /\ BufferAt(buffer, data_end - 1) = TelomereAt(telomere_idx)
    THEN BackwardScan(buffer, data_start, data_end - 1,
                      (Len(TELOMERE_SEQ) + telomere_idx - 1) % Len(TELOMERE_SEQ))
    ELSE [data_end |-> data_end, telomere_idx |-> telomere_idx]

\* The value of result and result2 before the call returns.
NotReturned == [returned |-> FALSE]

\* What one call returns and does: the pair {start, end}, the buffer indices it
\* read, the stream calls it made, and which ends had a matching rotation.
Returned(data_start, data_end, reads, stream_calls, front, back) ==
    [returned |-> TRUE, start |-> data_start, end |-> data_end, reads |-> reads,
     stream_calls |-> stream_calls, front |-> front, back |-> back]

getDataRange(h, chunk_size, past) ==
    LET size0 == HelixSize(h) * PackedSize
    IN  IF size0 < Len(TELOMERE_SEQ)
        THEN Returned(0, size0, {}, <<"size">>, FALSE, FALSE)
        ELSE
        LET buffer == read(h, chunk_size, past)
            front == FrontPhase(buffer)
            fwd == ForwardScan(buffer, front.data_start, size0, front.telomere_idx)
            data_start == fwd.data_start
            fwd_reads == {i \in front.data_start..data_start : i < size0}
            stream_calls == <<"size", "seek", "read">>
        IN  IF NoRoomAtEnd(data_start, size0)
            THEN Returned(data_start, size0, front.reads \cup fwd_reads,
                          stream_calls, front.matched, FALSE)
            ELSE
            LET back == BackPhase(buffer, size0, fwd.telomere_idx)
                bwd == BackwardScan(buffer, data_start, back.data_end, back.telomere_idx)
                bwd_reads == {i \in (bwd.data_end - 1)..(back.data_end - 1) : i >= data_start}
            IN  Returned(data_start, bwd.data_end,
                         front.reads \cup fwd_reads \cup back.reads \cup bwd_reads,
                         stream_calls, front.matched, back.matched)

-----------------------------------------------------------------------------
\* Bounds of the model

\* Storage units of the longest chromosome handed to getDataRange.
MaxUnits == 4

\* Largest chunk size, in bases, of a stream that delivers less than a chromosome.
MaxChunk == 6

\* Length of the longest run tiled over an interior by ReplaceInterior.
FillLen == 2

\* Half-width, in storage units, of the windows of sizes around each band edge.
SexWindow == 12

\* Bases compared at each edge of two interiors whose middle is one repeated base.
EdgeWindow == 32

\* The chunk size of the streams whose read() delivers the whole chromosome.
ChunkSize == 128

\* The storage units the chromosomes are built from, as pack(b1, b2, b3, b4).
Units ==
    {<<"T", "T", "A", "G">>, <<"G", "G", "T", "T">>, <<"A", "G", "G", "G">>,
     <<"T", "A", "G", "G">>, <<"G", "T", "T", "A">>, <<"G", "G", "G", "T">>,
     <<"T", "C", "C", "C">>,
     <<"C", "C", "C", "C">>, <<"G", "G", "C", "C">>, <<"C", "C", "T", "T">>,
     <<"G", "G", "T", "C">>, <<"C", "G", "T", "T">>}

RECURSIVE Flatten(_)
Flatten(units) == IF units = <<>> THEN <<>> ELSE Head(units) \o Flatten(Tail(units))

\* Every chromosome of at most MaxUnits storage units.
Inputs == {Plain(Flatten(us)) : us \in UNION {[1..n -> Units] : n \in 0..MaxUnits}}

\* The sizes handed to getSex: windows around the four band edges, and the sizes
\* the tests use.
BandEdges ==
    {(4 * X_CHROMOSOME_LEN) \div 5, (5 * X_CHROMOSOME_LEN) \div 4,
     (4 * Y_CHROMOSOME_LEN) \div 5, (5 * Y_CHROMOSOME_LEN) \div 4}

SexSizes ==
    UNION {((e \div PackedSize) - SexWindow)..((e \div PackedSize) + SexWindow) : e \in BandEdges}
    \cup {0, 100000000 \div PackedSize,
          X_CHROMOSOME_LEN \div PackedSize, 150000000 \div PackedSize, 160000000 \div PackedSize,
          Y_CHROMOSOME_LEN \div PackedSize, 50000000 \div PackedSize, 60000000 \div PackedSize}

\* The runs ReplaceInterior tiles over an interior: every run of at most FillLen
\* bases, and the six rotations of the telomere pattern.
Fillers ==
    UNION {[1..n -> Base] : n \in 1..FillLen}
    \cup {[i \in 1..Len(TELOMERE_SEQ) |-> TelomereAt((p + i - 1) % Len(TELOMERE_SEQ))] :
            p \in 0..(Len(TELOMERE_SEQ) - 1)}

\* h with the bases at the indices strictly between from and to replaced by f, tiled.
Replaced(h, from, to, f) ==
    Plain([i \in 1..HelixLen(h) |->
              IF from < i - 1 /\ i - 1 < to
              THEN f[((i - 2 - from) % Len(f)) + 1]
              ELSE BaseAt(h, i - 1)])

-----------------------------------------------------------------------------
\* Values of the variables a specification does not use.
IdleSex == helix_size = 0 /\ sex = "none"

IdleRange ==
    /\ helix = Plain(<<>>)
    /\ chunk = ChunkSize
    /\ result = NotReturned
    /\ helix2 = Plain(<<>>)
    /\ result2 = NotReturned

IdleCompare ==
    /\ a_chromosomes = NUM_CHROMOSOMES
    /\ b_chromosomes = NUM_CHROMOSOMES
    /\ pc = "idle"
    /\ chromosome_idx = 0
    /\ helix_a = Plain(<<>>)
    /\ helix_b = Plain(<<>>)
    /\ skipped = FALSE
    /\ ret = <<>>
    /\ calls = {}

-----------------------------------------------------------------------------
\* getSex on a stream of helix_size storage units

InitSex ==
    /\ helix_size \in SexSizes
    /\ sex = "none"
    /\ IdleRange
    /\ IdleCompare

GetSexCall ==
    /\ sex = "none"
    /\ sex' = getSex(helix_size)
    /\ UNCHANGED <<helix_size, rangeVars, compareVars>>

NextSex == GetSexCall

SpecSex == InitSex /\ [][NextSex]_vars

-----------------------------------------------------------------------------
\* getDataRange on a stream

InitRange ==
    /\ helix \in Inputs
    /\ chunk = ChunkSize
    /\ result = NotReturned
    /\ helix2 = helix
    /\ result2 = NotReturned
    /\ IdleSex
    /\ IdleCompare

InitChunked ==
    /\ helix \in Inputs
    /\ chunk \in 1..MaxChunk
    /\ result = NotReturned
    /\ helix2 = helix
    /\ result2 = NotReturned
    /\ IdleSex
    /\ IdleCompare

\* One call of getDataRange(helix). A read at or beyond the chunk's length is
\* undefined; the call may see any of PastChoices there.
GetDataRangeCall ==
    /\ result = NotReturned
    /\ \E past \in PastChoicesFor(helix, chunk) : result' = getDataRange(helix, chunk, past)
    /\ UNCHANGED <<helix, chunk, helix2, result2, sexVars, compareVars>>

\* A second chromosome that differs from helix only strictly between the indices
\* start and end - 1 that getDataRange returned for helix, and the call on it.
ReplaceInterior ==
    /\ result.returned
    /\ result2 = NotReturned
    /\ result.front /\ result.back
    /\ result.start + 1 < result.end - 1
    /\ \E f \in Fillers :
         /\ helix2' = Replaced(helix, result.start, result.end - 1, f)
         /\ \E past \in PastChoicesFor(helix2', chunk) :
              result2' = getDataRange(helix2', chunk, past)
    /\ UNCHANGED <<helix, chunk, result, sexVars, compareVars>>

Next == GetDataRangeCall \/ ReplaceInterior

Spec == InitRange /\ [][Next]_vars

NextChunked == GetDataRangeCall

SpecChunked == InitChunked /\ [][NextChunked]_vars

-----------------------------------------------------------------------------
\* Comparator::compare

\* How far the counts a person may report lie from NUM_CHROMOSOMES.
CountSpread == 1

ChromosomeCounts == (NUM_CHROMOSOMES - CountSpread)..(NUM_CHROMOSOMES + CountSpread)

\* The chromosomes a person may hold at an index: short ones, and ones of the
\* lengths of an X chromosome, of a Y chromosome and of neither.
Long(len, fill) ==
    Helix(<<"T", "T", "A", "G", "G", "G", "C", "A">>, fill, len - 16,
          <<"A", "C", "T", "T", "A", "G", "G", "G">>)

Chromosomes ==
    {Plain(<<"T", "T", "A", "G">>),
     Plain(<<"C", "C", "C", "C", "C", "C", "C", "C">>),
     Plain(<<"C", "C", "C", "C", "A", "C", "C", "C">>),
     Plain(<<"T", "T", "A", "G", "G", "G", "C", "C", "C", "C", "T", "T", "A", "G", "G", "G">>),
     Long(X_CHROMOSOME_LEN, "C"), Long(X_CHROMOSOME_LEN, "A"),
     Long(Y_CHROMOSOME_LEN, "C"),
     Long(100000000, "C")}

\* The test of the chromosome counts: TRUE when compare goes on.
ValidCountsFirstOnly(a_count, b_count) == a_count = NUM_CHROMOSOMES

ValidCounts(a_count, b_count) ==
    ~(a_count # NUM_CHROMOSOMES \/ b_count # NUM_CHROMOSOMES)

\* "We don't want to compare sex chromosomes if sexes are different".
SkipSexDifferentOnly(a_sex, b_sex) == a_sex # b_sex

SkipSex(a_sex, b_sex) == (a_sex # b_sex) \/ (a_sex = "MAX")

\* The Difference records the loop body appends for one chromosome: the body ends
\* after the two calls of getDataRange and constructs none.
Differences(idx, a_range, b_range) == <<>>

\* A call of a capability of a person's chromosome.
Call(person, idx, op) == [person |-> person, idx |-> idx, op |-> op]

StreamCalls(person, idx, ops) == {Call(person, idx, ops[i]) : i \in 1..Len(ops)}

InitCompare ==
    /\ a_chromosomes \in ChromosomeCounts
    /\ b_chromosomes \in ChromosomeCounts
    /\ pc = "entry"
    /\ chromosome_idx = 0
    /\ helix_a = Plain(<<>>)
    /\ helix_b = Plain(<<>>)
    /\ skipped = FALSE
    /\ ret = <<>>
    /\ calls = {}
    /\ IdleSex
    /\ IdleRange

\* The check of the chromosome counts, which throws std::invalid_argument.
CompareEntry ==
    /\ pc = "entry"
    /\ pc' = IF ValidCounts(a_chromosomes, b_chromosomes) THEN "loop" ELSE "thrown"
    /\ UNCHANGED <<a_chromosomes, b_chromosomes, chromosome_idx, helix_a, helix_b,
                   skipped, ret, calls, sexVars, rangeVars>>

\* One iteration of the loop, on the chromosomes ha and hb the two persons hold
\* at chromosome_idx. calls becomes the calls of this iteration.
CompareChromosome ==
    /\ pc = "loop"
    /\ chromosome_idx < NUM_CHROMOSOMES
    /\ \E ha \in Chromosomes, hb \in Chromosomes :
         LET is_sex == chromosome_idx = SEX_CHROMOSOME_IDX
             a_sex == getSex(HelixSize(ha))
             b_sex == getSex(HelixSize(hb))
             skip == is_sex /\ SkipSex(a_sex, b_sex)
             a_range == getDataRange(ha, HelixLen(ha), "rest")
             b_range == getDataRange(hb, HelixLen(hb), "rest")
         IN  /\ helix_a' = ha
             /\ helix_b' = hb
             /\ skipped' = skip
             /\ calls' = {Call("a", chromosome_idx, "chromosome"),
                           Call("b", chromosome_idx, "chromosome")}
                         \cup (IF is_sex
                               THEN {Call("a", chromosome_idx, "size"),
                                     Call("b", chromosome_idx, "size")}
                               ELSE {})
                         \cup (IF skip
                               THEN {}
                               ELSE StreamCalls("a", chromosome_idx, a_range.stream_calls)
                                    \cup StreamCalls("b", chromosome_idx, b_range.stream_calls))
             /\ ret' = IF skip THEN ret
                       ELSE ret \o Differences(chromosome_idx, a_range, b_range)
    /\ chromosome_idx' = chromosome_idx + 1
    /\ UNCHANGED <<a_chromosomes, b_chromosomes, pc, sexVars, rangeVars>>

\* The return of ret after the last chromosome.
CompareReturn ==
    /\ pc = "loop"
    /\ chromosome_idx = NUM_CHROMOSOMES
    /\ pc' = "returned"
    /\ UNCHANGED <<a_chromosomes, b_chromosomes, chromosome_idx, helix_a, helix_b,
                   skipped, ret, calls, sexVars, rangeVars>>

NextCompare == CompareEntry \/ CompareChromosome \/ CompareReturn

SpecCompare == InitCompare /\ [][NextCompare]_vars

-----------------------------------------------------------------------------
\* Properties of getSex

\* C4: with L = size() * 4, getSex returns X for every L strictly inside
\* (124,800,000, 195,000,000), Y for every L strictly inside (45,600,000,
\* 71,250,000), and MAX for every other L, the four band edges, 0 and
\* 100,000,000 included.
SexBands ==
    sex # "none" =>
        LET L == helix_size * 4
            inX == 124800000 < L /\ L < 195000000
            inY == 45600000 < L /\ L < 71250000
        IN  /\ inX => sex = "X"
            /\ inY => sex = "Y"
            /\ (~inX /\ ~inY) => sex = "MAX"

\* A band edge itself has been classified.
SexBandsWitness ==
    /\ sex = "MAX"
    /\ helix_size * 4 \in {124800000, 195000000, 45600000, 71250000}

-----------------------------------------------------------------------------
\* Properties of getDataRange

\* The bases of helix, and its length.
Bases == helix.head

TotalLen == Len(helix.head)

\* The six bases from 0-based index at on are the telomere pattern rotated by p.
RotationAt(bases, at, p) ==
    \A j \in 0..5 : bases[at + j + 1] = TelomereAt((p + j) % 6)

Max(x, y) == IF x > y THEN x ELSE y

\* bases is count copies of T,T,A,G,G,G.
IsPeriods(bases, count) ==
    /\ Len(bases) = 6 * count
    /\ \A i \in 1..Len(bases) : bases[i] = TelomereAt((i - 1) % 6)

\* bases begins, or ends, with one full T,T,A,G,G,G.
BeginsWithPeriod(bases) == Len(bases) >= 6 /\ IsPeriods(SubSeq(bases, 1, 6), 1)

EndsWithPeriod(bases) ==
    Len(bases) >= 6 /\ IsPeriods(SubSeq(bases, Len(bases) - 5, Len(bases)), 1)

\* C5: for a sequence of K copies of T,T,A,G,G,G, interior data that neither
\* begins nor ends with a further full period, and M copies of T,T,A,G,G,G,
\* getDataRange returns start = 6K and end = total length - 6M.
TelomereRoundTrip ==
    result.returned =>
        \A K \in 0..MaxUnits, M \in 0..MaxUnits :
            (/\ 6 * K + 6 * M <= TotalLen
             /\ IsPeriods(SubSeq(Bases, 1, 6 * K), K)
             /\ IsPeriods(SubSeq(Bases, TotalLen - 6 * M + 1, TotalLen), M)
             /\ ~BeginsWithPeriod(SubSeq(Bases, 6 * K + 1, TotalLen - 6 * M))
             /\ ~EndsWithPeriod(SubSeq(Bases, 6 * K + 1, TotalLen - 6 * M)))
            => (result.start = 6 * K /\ result.end = TotalLen - 6 * M)

\* C6: for every chunk size getDataRange returns the range it returns when read()
\* delivers the whole chromosome, and it reads no buffer index at or beyond the
\* length of the chunk.
ChunkIndependent ==
    result.returned =>
        LET whole == getDataRange(helix, TotalLen, "rest")
        IN  /\ result.start = whole.start
            /\ result.end = whole.end
            /\ \A i \in result.reads : i < Min(chunk, TotalLen)

\* C7: on at least 6 bases, when no rotation of the pattern equals the first 6
\* bases the returned start is 0, and when at least 6 bases remain after the
\* front scan and no rotation equals the last 6 bases the returned end is the
\* total length.
NoRotationNoTrim ==
    (result.returned /\ TotalLen >= 6) =>
        /\ (\A p \in 0..5 : ~RotationAt(Bases, 0, p)) => result.start = 0
        /\ (/\ TotalLen - result.start >= 6
            /\ \A p \in 0..5 : ~RotationAt(Bases, TotalLen - 6, p))
           => result.end = TotalLen

\* The pattern symbol a telomere with rotation p at 0-based index at puts at index i.
Continued(at, p, i) == TelomereAt((p + i + 5 * at) % 6)

\* C8: when rotation p matches the first 6 bases, the returned start is the
\* smallest index i >= 6 whose base differs from pattern[(p + i) mod 6] (the
\* total length when there is none); when a rotation matches the last 6 bases
\* and at least 6 bases remain after the front scan, the returned end is one past
\* the first index, scanning backward, whose base breaks that pattern, and never
\* below start.
PartialPeriodsExact ==
    (result.returned /\ TotalLen >= 6) =>
        /\ \A p \in 0..5 :
             RotationAt(Bases, 0, p) =>
                LET breaks == {i \in 6..(TotalLen - 1) : Bases[i + 1] # TelomereAt((p + i) % 6)}
                IN  /\ breaks # {} => (result.start \in breaks
                                       /\ \A i \in breaks : result.start <= i)
                    /\ breaks = {} => result.start = TotalLen
        /\ \A q \in 0..5 :
             (TotalLen - result.start >= 6 /\ RotationAt(Bases, TotalLen - 6, q)) =>
                LET breaks == {i \in 0..(TotalLen - 7) :
                                  Bases[i + 1] # Continued(TotalLen - 6, q, i)}
                    last == IF breaks = {} THEN -1
                            ELSE CHOOSE i \in breaks : \A j \in breaks : j <= i
                IN  result.end = Max(result.start, last + 1)

\* A partial period has been trimmed at both ends.
PartialPeriodsWitness ==
    /\ result.returned
    /\ result.front /\ result.back
    /\ result.start % 6 # 0
    /\ (TotalLen - result.end) % 6 # 0
    /\ result.start < result.end

\* C9: when a rotation matched at both ends of helix and getDataRange returned
\* [s, e), every helix2 that differs from helix only at indices strictly between
\* s and e - 1 gets the same range.
InteriorIrrelevant ==
    (/\ result.returned /\ result2.returned
     /\ result.front /\ result.back
     /\ HelixLen(helix2) = TotalLen
     /\ \A i \in 0..(TotalLen - 1) :
           (i <= result.start \/ i >= result.end - 1) => BaseAt(helix2, i) = BaseAt(helix, i))
    => (result2.start = result.start /\ result2.end = result.end)

\* An interior has been replaced by bases of the pattern.
InteriorIrrelevantWitness ==
    /\ result.returned /\ result2.returned
    /\ result.front /\ result.back
    /\ helix2 # helix
    /\ \A i \in (result.start + 1)..(result.end - 2) : BaseAt(helix2, i) \in {"T", "A", "G"}
    /\ BaseAt(helix2, result.start + 1) = "T"

\* Every base of bases is the pattern, repeated, at one phase.
AllPattern(bases) ==
    /\ Len(bases) >= 6
    /\ \E p \in 0..5 : \A i \in 0..(Len(bases) - 1) : bases[i + 1] = TelomereAt((p + i) % 6)

\* C10: served in a single chunk, getDataRange returns 0 <= start <= end <= total
\* length, reads only buffer indices in [0, total length), and returns an empty
\* range for a sequence that is entirely pattern repeats.
RangeWithinBounds ==
    result.returned =>
        /\ 0 <= result.start
        /\ result.start <= result.end
        /\ result.end <= TotalLen
        /\ \A i \in result.reads : 0 <= i /\ i < TotalLen
        /\ AllPattern(Bases) => result.start = result.end

\* A sequence of pattern repeats only has been trimmed.
RangeWithinBoundsWitness ==
    /\ result.returned
    /\ AllPattern(Bases)
    /\ result.start = TotalLen

-----------------------------------------------------------------------------
\* Properties of compare

\* The index of the iteration that ran last.
LastIdx == chromosome_idx - 1

\* The interior [start, end) of h holds, at offset k, the base BaseAt(h, start + k).
\* Two interiors differ when their lengths differ or some offset holds two
\* bases; beyond EdgeWindow bases from both edges each interior is its fill.
InteriorsDiffer(ha, a_range, hb, b_range) ==
    LET a_len == a_range.end - a_range.start
        b_len == b_range.end - b_range.start
    IN  \/ a_len # b_len
        \/ \E k \in 0..(a_len - 1) :
             /\ (k < EdgeWindow \/ k >= a_len - EdgeWindow)
             /\ BaseAt(ha, a_range.start + k) # BaseAt(hb, b_range.start + k)

\* C1: compare throws whenever a.chromosomes() # 23 or b.chromosomes() # 23,
\* with no call made on any chromosome of either person and no list returned.
InvalidCountsRejected ==
    (pc # "entry" /\ (a_chromosomes # 23 \/ b_chromosomes # 23)) =>
        (pc = "thrown" /\ calls = {} /\ chromosome_idx = 0)

\* compare has thrown for a second person with 24 chromosomes.
InvalidCountsWitness ==
    pc = "thrown" /\ a_chromosomes = 23 /\ b_chromosomes = 24

\* C2: when the interiors of the two samples differ at an index that is not
\* skipped, the list holds a Difference whose chromosome_idx is that index.
DifferencesReported ==
    (/\ pc \in {"loop", "returned"}
     /\ chromosome_idx >= 1
     /\ \/ LastIdx < 22
        \/ /\ LastIdx = 22
           /\ getSex(HelixSize(helix_a)) = getSex(HelixSize(helix_b))
           /\ getSex(HelixSize(helix_a)) # "MAX"
     /\ InteriorsDiffer(helix_a, getDataRange(helix_a, HelixLen(helix_a), "rest"),
                        helix_b, getDataRange(helix_b, HelixLen(helix_b), "rest")))
    => \E k \in 1..Len(ret) : ret[k].chromosome_idx = LastIdx

\* C3: at index 22, when the two classifications differ or either is MAX, no
\* seek or read is made on either stream, getDataRange is not called, and the
\* list holds no Difference whose chromosome_idx is 22.
SexMismatchSkipped ==
    (/\ pc \in {"loop", "returned"}
     /\ LastIdx = 22
     /\ \/ getSex(HelixSize(helix_a)) # getSex(HelixSize(helix_b))
        \/ getSex(HelixSize(helix_a)) = "MAX"
        \/ getSex(HelixSize(helix_b)) = "MAX")
    => /\ skipped
       /\ \A c \in calls : c.idx = 22 => c.op \notin {"seek", "read"}
       /\ \A k \in 1..Len(ret) : ret[k].chromosome_idx # 22

\* Index 22 has been skipped for an X and a Y chromosome.
SexMismatchWitness ==
    /\ pc = "returned"
    /\ getSex(HelixSize(helix_a)) = "X"
    /\ getSex(HelixSize(helix_b)) = "Y"
    /\ skipped

====
